---- MODULE Spec2Model ----
(***************************************************************************)
(* Model of the OTP applet of Pico FIDO (src/fido/otp.c): the two OTP      *)
(* slots, the configuration sequence number, the command handler and the   *)
(* button-press credential engine.                                         *)
(*                                                                         *)
(* Stored slot contents and command payloads are byte sequences with the   *)
(* packed layout of otp_config_t, so that offsets and sizes are checked    *)
(* and not assumed.  The device build is modelled (ENABLE_EMULATION not    *)
(* defined), i.e. the body of otp_button_pressed is present.               *)
(***************************************************************************)
EXTENDS Integers, Sequences, FiniteSets, TLC

\* ------------------------------------------------------------------------
\* Program constants (otp.c lines 27-81)
\* ------------------------------------------------------------------------
FIXED_SIZE == 16
KEY_SIZE == 16
UID_SIZE == 6
ACC_CODE_SIZE == 6

CONFIG1_VALID == 1
CONFIG2_VALID == 2
CONFIG1_TOUCH == 4
CONFIG2_TOUCH == 8

APPEND_CR == 32
OATH_HOTP == 64
SHORT_TICKET == 2
STATIC_TICKET == 32
OATH_HOTP8 == 2

INS_OTP == 1

\* the version bytes reported by otp_status (version.h)
PICO_FIDO_VERSION_MAJOR == 5
PICO_FIDO_VERSION_MINOR == 12

\* the bytes of res_APDU the applet writes or reads: res_APDU[0..6]
RES_WINDOW == 7

\* sizeof(otp_config_t): packed, so the sum of the field sizes
\* fixed_data, uid, aes_key, acc_code, fixed_size, ext_flags, tkt_flags,
\* cfg_flags, rfu[2], crc
otp_config_size == FIXED_SIZE + UID_SIZE + KEY_SIZE + ACC_CODE_SIZE + 1 + 1 + 1 + 1 + 2 + 2

\* sizeof(new_chal): the eight bytes of the stored moving factor
CHAL_SIZE == 8

\* 0-based offsets of the fields of otp_config_t
OFF_fixed_data == 0
OFF_uid == OFF_fixed_data + FIXED_SIZE
OFF_aes_key == OFF_uid + UID_SIZE
OFF_acc_code == OFF_aes_key + KEY_SIZE
OFF_fixed_size == OFF_acc_code + ACC_CODE_SIZE
OFF_ext_flags == OFF_fixed_size + 1
OFF_tkt_flags == OFF_ext_flags + 1
OFF_cfg_flags == OFF_tkt_flags + 1
OFF_rfu == OFF_cfg_flags + 1
OFF_crc == OFF_rfu + 2

\* ------------------------------------------------------------------------
\* Bytes and byte sequences
\* ------------------------------------------------------------------------
Zeros(n) == [i \in 1..n |-> 0]

\* p[off .. off+len) of a C byte pointer (0-based offset)
Bytes(p, off, len) == SubSeq(p, off + 1, off + len)

\* (b & mask) != 0 for a single-bit mask
TestBit(b, mask) == (b \div mask) % 2 = 1

\* field accessors of otp_config_t through a byte pointer
fixed_data(p) == Bytes(p, OFF_fixed_data, FIXED_SIZE)
uid(p) == Bytes(p, OFF_uid, UID_SIZE)
aes_key(p) == Bytes(p, OFF_aes_key, KEY_SIZE)
acc_code(p) == Bytes(p, OFF_acc_code, ACC_CODE_SIZE)
fixed_size(p) == p[OFF_fixed_size + 1]
tkt_flags(p) == p[OFF_tkt_flags + 1]
cfg_flags(p) == p[OFF_cfg_flags + 1]
rfu(p) == Bytes(p, OFF_rfu, 2)

\* A packed otp_config_t from its fields
otp_config_t(fd, u, key, acc, fs, ext, tkt, cfg, r, crc) ==
    fd \o u \o key \o acc \o <<fs, ext, tkt, cfg>> \o r \o crc

\* ------------------------------------------------------------------------
\* Input catalogue.  Payloads are what a host sends in apdu.data: a packed
\* otp_config_t followed by the access code that authorises the update.
\* ------------------------------------------------------------------------
\* how many emissions past its first one the model follows an HOTP slot
MaxAdvance == 2
\* how many revisions of the sequence number Spec follows (SpecSeq follows
\* the whole range of the 8-bit variable)
MaxSeq == 3

FD == [i \in 1..FIXED_SIZE |-> 100 + i]
KEY == [i \in 1..KEY_SIZE |-> 200 + i]
UID0 == Zeros(UID_SIZE)
UID1 == <<0, 0, 0, 0, 0, 1>>
AccA == Zeros(ACC_CODE_SIZE)
AccB == <<0, 0, 0, 0, 0, 7>>
NoRfu == <<0, 0>>
Crc0 == <<0, 0>>

\* HOTP, 6 digits; everything before tkt_flags is zero
Rec_hotp6 == otp_config_t(Zeros(FIXED_SIZE), UID0, Zeros(KEY_SIZE), AccA, 0, 0, OATH_HOTP, 0, NoRfu, Crc0)
\* HOTP, 8 digits, CR appended, counter seeded from uid[4..5]
Rec_hotp8 == otp_config_t(FD, UID1, KEY, AccB, 0, 0, OATH_HOTP + APPEND_CR, OATH_HOTP8, NoRfu, <<18, 52>>)
\* short static ticket of odd length, terminator appended
Rec_short == otp_config_t(FD, UID0, KEY, AccA, 5, 0, APPEND_CR, SHORT_TICKET, NoRfu, Crc0)
\* full static ticket
Rec_static == otp_config_t(FD, UID0, KEY, AccB, FIXED_SIZE, 0, 0, STATIC_TICKET, NoRfu, Crc0)
\* neither HOTP nor ticket mode
Rec_noop == otp_config_t(FD, UID1, KEY, AccA, 4, 0, 0, 0, NoRfu, Crc0)
\* the delete request
Rec_zero == Zeros(otp_config_size)
\* reserved bytes set
Rec_rfu0 == otp_config_t(FD, UID0, KEY, AccA, 0, 0, OATH_HOTP, 0, <<1, 0>>, Crc0)
Rec_rfu1 == otp_config_t(Zeros(FIXED_SIZE), UID0, Zeros(KEY_SIZE), AccA, 0, 0, 0, 0, <<0, 9>>, Crc0)

Records == {Rec_hotp6, Rec_hotp8, Rec_short, Rec_static, Rec_noop, Rec_zero, Rec_rfu0, Rec_rfu1}
Codes == {AccA, AccB}
Payloads == {r \o c : r \in Records, c \in Codes}

\* the catalogue of SpecSeq: one record, the delete request, one code
SeqPayloads == {Rec_hotp6 \o AccA, Rec_zero \o AccA}

\* headers <<cla, ins, p1, p2>> of the commands that are not configure
\* requests, and the data sent with them
OtherHeaders == {<<0, INS_OTP, 16, 0>>, <<0, INS_OTP, 2, 0>>, <<0, INS_OTP, 1, 1>>,
                 <<0, INS_OTP, 16, 1>>, <<128, INS_OTP, 1, 0>>, <<0, 2, 3, 0>>, <<0, 0, 1, 0>>,
                 <<255, 2, 16, 1>>, <<0, 2, 1, 1>>}
OtherPayloads == {Rec_hotp8 \o AccA, Rec_zero \o AccA, Rec_rfu0 \o AccB}

\* res_APDU[2..5] as left by a successful calculate_oath (big-endian)
OathValues == {<<5, 245, 225, 42>>, <<127, 255, 255, 255>>}
OathRets == {"CCID_OK", "CCID_EXEC_ERROR"}
OathDefault == <<5, 245, 225, 42>>

\* the string pico_get_unique_board_id_string leaves in a 4-byte buffer:
\* three hexadecimal digits of the board id and the terminator
BoardId == <<69, 54, 54, 0>>

\* What the handler can read through the record pointer when the slot has
\* no file (file_get_data gives NULL): bytes it does not own.
NullDefault == Zeros(otp_config_size + CHAL_SIZE)
NullReads == {Rec_hotp6 \o Zeros(CHAL_SIZE), Rec_short \o Zeros(CHAL_SIZE), NullDefault}

\* what the stack can hold where tmp_key[1] is placed
StackBytes == {0, 165}

\* counter extensions a slot can hold after enough emissions, with a byte
\* of 0x80 and above in different positions
ExtValues == {<<0, 0, 0, 0, 0, 0, 0, 3>>, <<0, 0, 0, 0, 127, 255, 255, 255>>,
              <<0, 0, 0, 0, 128, 0, 0, 0>>, <<0, 0, 0, 128, 0, 0, 0, 0>>,
              <<128, 0, 0, 0, 0, 0, 0, 0>>, <<0, 0, 0, 0, 0, 128, 0, 128>>}

\* stored slot contents a device can be powered up with
OathSlots == {<<>>, Rec_hotp8, Rec_static} \cup {Rec_hotp6 \o e : e \in ExtValues}

\* Outcomes of the store "otp_config->fixed_size /= 2" through the pointer
\* file_get_data returned (a pointer into the stored file contents):
\* the store reaches the stored record; or the memory drops it and the
\* halved value is used from the register; or it is dropped and the
\* argument is loaded again from memory.
StoreOutcomes == {"stored", "dropped", "dropped_reload"}

\* ------------------------------------------------------------------------
\* State
\* ------------------------------------------------------------------------
VARIABLES
    slot,        \* slot[1], slot[2]: bytes of EF_OTP_SLOT1 / EF_OTP_SLOT2, <<>> = no data
    config_seq,  \* static uint8_t config_seq
    selected,    \* the applet has been selected (process_apdu is installed)
    sw,          \* status word of the last operation, "-" when it was a button press
    kbd,         \* bytes handed to the keyboard buffer by the last operation
    res_APDU,    \* res_APDU[0..6] as the last operation leaves a cleared buffer
    res_APDU_size, \* number of bytes of res_APDU that make up the response data
    flash_ok,    \* the storage performs the writes it is asked for
    oath         \* the most recent call of calculate_oath (followed by SpecOath)

vars == <<slot, config_seq, selected, sw, kbd, res_APDU, res_APDU_size, flash_ok, oath>>

Slots == {1, 2}

\* file_has_data(search_dynamic_file(EF_OTP_SLOTn))
file_has_data(ef) == Len(ef) > 0

\* uint8_t increment
uint8_inc(x) == (x + 1) % 256

\* the response buffer with nothing written to it
ResClear == Zeros(RES_WINDOW)

\* no call of calculate_oath has been made
NoCall == [n |-> 0, key |-> <<>>, chal |-> <<>>, ret |-> "-"]

Init ==
    /\ slot = [s \in Slots |-> <<>>]
    /\ config_seq = 1
    /\ selected = FALSE
    /\ sw = "-"
    /\ kbd = <<>>
    /\ res_APDU = ResClear
    /\ res_APDU_size = 0
    /\ flash_ok = TRUE
    /\ oath = NoCall

\* ------------------------------------------------------------------------
\* Applet selection (otp_select) and status (otp_status)
\* ------------------------------------------------------------------------
\* otp_aid + 1, the otp_aid[0] = 7 bytes of the application identifier
otp_aid == <<160, 0, 0, 5, 39, 32, 1>>

AidInputs == {otp_aid, <<160, 0, 0, 5, 39>>, <<160, 0, 0, 6, 71, 47, 0, 1>>}

MIN(a, b) == IF a < b THEN a ELSE b

\* !memcmp(aid, otp_aid + 1, MIN(aid_len, otp_aid[0]))
aid_matches(aid) ==
    \A i \in 1..MIN(Len(aid), Len(otp_aid)) : aid[i] = otp_aid[i]

\* config_seq as otp_select sets it
select_seq(s1, s2) ==
    IF file_has_data(s1) \/ file_has_data(s2) THEN 1 ELSE 0

\* res_APDU[5] of otp_status: both touch bits, and a valid bit per slot with data
capability(s1, s2) ==
    (CONFIG2_TOUCH + CONFIG1_TOUCH)
        + (IF file_has_data(s1) THEN CONFIG1_VALID ELSE 0)
        + (IF file_has_data(s2) THEN CONFIG2_VALID ELSE 0)

\* the buffer after otp_status(): res_APDU[1..6] are written (positions
\* 2..7 of the sequence), res_APDU[0] is not
otp_status_bytes(buf, seq, s1, s2) ==
    [buf EXCEPT ![2] = PICO_FIDO_VERSION_MAJOR,
                ![3] = PICO_FIDO_VERSION_MINOR,
                ![4] = 0,
                ![5] = seq,
                ![6] = capability(s1, s2),
                ![7] = 0]

\* otp_status() called with the sequence number and the slots it finds:
\* "res_APDU_size = 0" is its only assignment to the size
otp_status(seq, s1, s2) ==
    /\ res_APDU' = otp_status_bytes(ResClear, seq, s1, s2)
    /\ res_APDU_size' = 0

\* the response data handed back with the status word: res_APDU[0 .. res_APDU_size)
\* (after otp_select, apdu.ne = res_APDU_size)
Response == Bytes(res_APDU, 0, res_APDU_size)

otp_select(aid) ==
    IF aid_matches(aid)
    THEN /\ config_seq' = select_seq(slot[1], slot[2])
         /\ selected' = TRUE
         /\ sw' = "SW_OK"
         /\ kbd' = <<>>
         /\ otp_status(select_seq(slot[1], slot[2]), slot[1], slot[2])
         /\ UNCHANGED slot
    ELSE UNCHANGED vars

\* ------------------------------------------------------------------------
\* Commands (otp_process_apdu, cmd_otp)
\* ------------------------------------------------------------------------
\* a command that returns `status` and leaves the slots and config_seq alone
Return(status) ==
    /\ sw' = status
    /\ kbd' = <<>>
    /\ res_APDU' = ResClear
    /\ res_APDU_size' = 0
    /\ UNCHANGED <<slot, config_seq, selected>>

\* EF_OTP_SLOT1 for p1 = 0x01, EF_OTP_SLOT2 otherwise
slot_of_p1(p1) == IF p1 = 1 THEN 1 ELSE 2

rfu_nonzero_first_only(data) == rfu(data)[1] # 0
\* odata->rfu[0] != 0 || odata->rfu[1] != 0
rfu_nonzero(data) == rfu(data)[1] # 0 \/ rfu(data)[2] # 0

acc_code_mismatch_last_byte_skipped(stored, data) ==
    Bytes(acc_code(stored), 0, ACC_CODE_SIZE - 1) # Bytes(data, otp_config_size, ACC_CODE_SIZE - 1)
\* memcmp(otpc->acc_code, apdu.data + otp_config_size, ACC_CODE_SIZE) != 0
acc_code_mismatch(stored, data) ==
    acc_code(stored) # Bytes(data, otp_config_size, ACC_CODE_SIZE)

config_nonzero_before_flags(data) ==
    \E c \in 0..(OFF_tkt_flags - 1) : data[c + 1] # 0
\* the loop of lines 247-254 finds a non-zero byte among the first otp_config_size
config_nonzero(data) ==
    \E c \in 0..(otp_config_size - 1) : data[c + 1] # 0

flash_write_whole_buffer(ef, data, len) == data
\* flash_write_data_to_file(ef, data, len): the file holds exactly data[0..len)
\* when the storage performs the write, and what it held when it does not
\* (the call then returns an error code)
flash_write_data_to_file(ef, data, len) ==
    IF flash_ok THEN Bytes(data, 0, len) ELSE ef

delete_file_writes_zeros(ef) == Zeros(otp_config_size)
\* delete_file(ef): the slot has no data afterwards
delete_file(ef) == <<>>

\* config_seq after delete_file(ef), given the slots after the deletion
seq_after_delete(s1, s2, seq) ==
    IF ~file_has_data(s1) /\ ~file_has_data(s2) THEN 0 ELSE seq

cmd_otp(p1, p2, data) ==
    IF p2 # 0 THEN Return("SW_INCORRECT_P1P2")
    ELSE IF p1 = 1 \/ p1 = 3 THEN
        LET n == slot_of_p1(p1)
            ef == slot[n]
        IN  IF rfu_nonzero(data) THEN Return("SW_WRONG_DATA")
            ELSE IF file_has_data(ef) /\ acc_code_mismatch(ef, data)
                 THEN Return("SW_SECURITY_STATUS_NOT_SATISFIED")
            ELSE IF config_nonzero(data)
                 \* the value flash_write_data_to_file returns is not used
                 THEN LET after == [slot EXCEPT ![n] =
                                       flash_write_data_to_file(ef, data, otp_config_size)]
                      IN  /\ slot' = after
                          /\ config_seq' = uint8_inc(config_seq)
                          /\ sw' = "SW_OK"
                          /\ kbd' = <<>>
                          /\ otp_status(uint8_inc(config_seq), after[1], after[2])
                          /\ UNCHANGED selected
            ELSE LET after == [slot EXCEPT ![n] = delete_file(ef)]
                     seq == seq_after_delete(after[1], after[2], config_seq)
                 IN  /\ slot' = after
                     /\ config_seq' = seq
                     /\ sw' = "SW_OK"
                     /\ kbd' = <<>>
                     /\ otp_status(seq, after[1], after[2])
                     /\ UNCHANGED selected
    ELSE IF p1 = 16 THEN
        \* pico_get_unique_board_id_string((char *) res_APDU, 4); res_APDU_size = 4
        /\ sw' = "SW_OK"
        /\ kbd' = <<>>
        /\ res_APDU' = BoardId \o Zeros(RES_WINDOW - Len(BoardId))
        /\ res_APDU_size' = Len(BoardId)
        /\ UNCHANGED <<slot, config_seq, selected>>
    ELSE Return("SW_OK")

otp_process_apdu_class_ignored(cla, ins, p1, p2, data) ==
    /\ selected
    /\ IF ins = INS_OTP THEN cmd_otp(p1, p2, data)
       ELSE Return("SW_INS_NOT_SUPPORTED")
otp_process_apdu(cla, ins, p1, p2, data) ==
    /\ selected
    /\ IF cla # 0 THEN Return("SW_CLA_NOT_SUPPORTED")
       ELSE IF ins = INS_OTP THEN cmd_otp(p1, p2, data)
       ELSE Return("SW_INS_NOT_SUPPORTED")

\* ------------------------------------------------------------------------
\* Button press (otp_button_pressed)
\* ------------------------------------------------------------------------
RECURSIVE be_value(_)
\* the unsigned value of a big-endian byte string
be_value(b) ==
    IF b = <<>> THEN 0 ELSE be_value(SubSeq(b, 1, Len(b) - 1)) * 256 + b[Len(b)]

\* the 8 bytes {imf >> 56, ..., imf & 0xff} of a value below 2^32
chal_of(n) == Zeros(4) \o [i \in 1..4 |-> (n \div (256 ^ (4 - i))) % 256]

\* imf = ((uid[4] << 8) | uid[5]) << 4
imf_from_uid(data) == chal_of(((uid(data)[5] * 256) + uid(data)[6]) * 16)

\* imf read from the 8 bytes after the record.  The four high bytes are
\* shifted as uint64_t; "*p++ << 24" is an int and is sign-extended when it
\* is or-ed into the 64-bit imf, which sets the upper 32 bits for a byte
\* of 0x80 and above.
imf_from_ext(data) ==
    LET p == Bytes(data, otp_config_size, CHAL_SIZE)
    IN  IF p[5] >= 128 THEN <<255, 255, 255, 255>> \o SubSeq(p, 5, 8) ELSE p

resolve_imf(size, data) ==
    IF size = otp_config_size THEN imf_from_uid(data) ELSE imf_from_ext(data)

imf_inc_none(imf) == imf
\* imf++ on the uint64_t, as its 8 big-endian bytes
imf_inc(imf) ==
    IF \A i \in 1..CHAL_SIZE : imf[i] = 255 THEN Zeros(CHAL_SIZE)
    ELSE LET m == CHOOSE i \in 1..CHAL_SIZE :
                      imf[i] # 255 /\ \A j \in (i + 1)..CHAL_SIZE : imf[j] = 255
         IN  [i \in 1..CHAL_SIZE |->
                 IF i < m THEN imf[i] ELSE IF i = m THEN imf[i] + 1 ELSE 0]

hotp_base_always_6(cfg) == 10 ^ 6
\* uint32_t base = otp_config->cfg_flags & OATH_HOTP8 ? 1e8 : 1e6
hotp_base(cfg) == IF TestBit(cfg, OATH_HOTP8) THEN 10 ^ 8 ELSE 10 ^ 6

\* number = (res_APDU[2] << 24) | (res_APDU[3] << 16) | (res_APDU[4] << 8) | res_APDU[5];
\* number %= base   (v[1] < 0x80 in the catalogue, so the value fits)
hotp_number(v, cfg) ==
    (((v[1] * 256 + v[2]) * 256 + v[3]) * 256 + v[4]) % hotp_base(cfg)

RECURSIVE dec_len(_)
dec_len(n) == IF n < 10 THEN 1 ELSE 1 + dec_len(n \div 10)

\* sprintf(number_str, "%0<width>lu", n): at least width digits, zero padded
sprintf_lu(width, n) ==
    LET w == IF dec_len(n) > width THEN dec_len(n) ELSE width
    IN  [i \in 1..w |-> 48 + ((n \div (10 ^ (w - i))) % 10)]

\* the bytes given to add_keyboard_buffer(number_str, 8 or 6, true)
hotp_keys(v, cfg) ==
    IF TestBit(cfg, OATH_HOTP8)
    THEN Bytes(sprintf_lu(8, hotp_number(v, cfg)), 0, 8)
    ELSE Bytes(sprintf_lu(6, hotp_number(v, cfg)), 0, 6)

\* new_otp_config: the record followed by new_chal
new_otp_config(data, imf) == Bytes(data, 0, otp_config_size) \o imf_inc(imf)

\* the length given to add_keyboard_buffer in the ticket branch
ticket_len(data, st) ==
    IF TestBit(cfg_flags(data), SHORT_TICKET)
    THEN IF st = "dropped_reload" THEN fixed_size(data) ELSE fixed_size(data) \div 2
    ELSE fixed_size(data)

\* the stored record after "otp_config->fixed_size /= 2"
halved_in_place(ef, st) ==
    IF file_has_data(ef) /\ TestBit(cfg_flags(ef), SHORT_TICKET) /\ st = "stored"
    THEN [ef EXCEPT ![OFF_fixed_size + 1] = fixed_size(ef) \div 2]
    ELSE ef

otp_button_pressed(n, ret, v, nul, st) ==
    LET ef == slot[n]
        \* file_get_data(ef): the stored bytes, or NULL when there is no file
        data == IF file_has_data(ef) THEN ef ELSE nul
        tkt == tkt_flags(data)
        cfg == cfg_flags(data)
        cr(c) == IF TestBit(tkt, APPEND_CR) THEN <<c>> ELSE <<>>
    IN  /\ sw' = "-"
        /\ UNCHANGED <<config_seq, selected>>
        \* "res_APDU_size = 0" before calculate_oath; the other branches do
        \* not touch the response, which is shown from a cleared buffer
        /\ res_APDU_size' = 0
        /\ IF TestBit(tkt, OATH_HOTP) THEN
               IF ret = "CCID_OK"
               THEN /\ kbd' = hotp_keys(v, cfg) \o cr(13)
                    \* calculate_oath left the truncated value in res_APDU[2..5]
                    /\ res_APDU' = <<0, 0>> \o v \o <<0>>
                    \* flash_write_data_to_file does nothing without a file,
                    \* and the value it returns is not used
                    /\ slot' = IF file_has_data(ef)
                               THEN [slot EXCEPT ![n] = flash_write_data_to_file(ef,
                                        new_otp_config(data, resolve_imf(Len(ef), data)),
                                        otp_config_size + CHAL_SIZE)]
                               ELSE slot
               ELSE /\ kbd' = cr(13)
                    /\ res_APDU' = ResClear
                    /\ UNCHANGED slot
           ELSE IF TestBit(cfg, SHORT_TICKET) \/ TestBit(cfg, STATIC_TICKET) THEN
               /\ kbd' = Bytes(data, OFF_fixed_data, ticket_len(data, st)) \o cr(40)
               /\ res_APDU' = ResClear
               /\ slot' = [slot EXCEPT ![n] = halved_in_place(ef, st)]
           ELSE /\ kbd' = <<>>
                /\ res_APDU' = ResClear
                /\ UNCHANGED slot

\* uint8_t tmp_key[KEY_SIZE + 2]: tmp_key[0] = 0x01, tmp_key[2..17] = aes_key;
\* tmp_key[1] is never written and holds what the stack held (stk)
tmp_key(data, stk) == <<1, stk>> \o aes_key(data)

\* the most recent call of calculate_oath after a press of slot n:
\* calculate_oath(1, tmp_key, sizeof(tmp_key), chal, sizeof(chal)) in the
\* HOTP branch, no call in the other branches
oath_call(n, ret, nul, stk) ==
    LET ef == slot[n]
        data == IF file_has_data(ef) THEN ef ELSE nul
    IN  IF TestBit(tkt_flags(data), OATH_HOTP)
        THEN [n |-> n, key |-> tmp_key(data, stk),
              chal |-> resolve_imf(Len(ef), data), ret |-> ret]
        ELSE oath

\* ------------------------------------------------------------------------
\* Specifications
\* ------------------------------------------------------------------------
\* the moving factor a reader resolves from the stored bytes of a slot
stored_imf(ef) == be_value(resolve_imf(Len(ef), ef))

\* an HOTP slot is followed for MaxAdvance emissions past its first one
PressInBound(n) ==
    file_has_data(slot[n]) /\ TestBit(tkt_flags(slot[n]), OATH_HOTP)
        => stored_imf(slot[n]) <= be_value(imf_from_uid(slot[n])) + MaxAdvance

\* Spec and SpecSeq run on a storage that performs every write, and do not
\* follow the calls of calculate_oath
Env == UNCHANGED <<flash_ok, oath>>

Select == \E aid \in AidInputs : otp_select(aid) /\ Env

\* configure and delete requests for both slots
Configure ==
    \E p1 \in {1, 3}, data \in Payloads :
        /\ config_seq < MaxSeq
        /\ otp_process_apdu(0, INS_OTP, p1, 0, data)
        /\ Env

\* every other command: <<cla, ins, p1, p2>>
Other ==
    \E h \in OtherHeaders, data \in OtherPayloads :
        /\ config_seq < MaxSeq
        /\ otp_process_apdu(h[1], h[2], h[3], h[4], data)
        /\ Env

\* the environment's choices that the handler can observe in the state it
\* is called in: the primitive's value when it succeeds, the bytes behind a
\* NULL record pointer when there is no file, the fate of the in-place store
Button ==
    \E n \in Slots, ret \in OathRets :
        \E v \in IF ret = "CCID_OK" THEN OathValues ELSE {OathDefault},
           nul \in IF file_has_data(slot[n]) THEN {NullDefault} ELSE NullReads,
           st \in StoreOutcomes :
            /\ PressInBound(n)
            /\ otp_button_pressed(n, ret, v, nul, st)
            /\ Env

Next == Select \/ Configure \/ Other \/ Button

Spec == Init /\ [][Next]_vars

\* The sequence number over its whole 8-bit range, on a small catalogue
SeqCommand ==
    \E p1 \in {1, 3}, data \in SeqPayloads :
        otp_process_apdu(0, INS_OTP, p1, 0, data) /\ Env

SeqButton ==
    \E n \in Slots, ret \in OathRets :
        /\ PressInBound(n)
        /\ otp_button_pressed(n, ret, OathDefault, NullDefault, "stored")
        /\ Env

NextSeq == Select \/ SeqCommand \/ SeqButton

SpecSeq == Init /\ [][NextSeq]_vars

\* The handlers on a storage that can refuse writes: the environment
\* switches the storage between performing and refusing
StorePayloads == {Rec_hotp8 \o AccB, Rec_static \o AccB, Rec_zero \o AccB}

Fault ==
    /\ flash_ok' = ~flash_ok
    /\ UNCHANGED <<slot, config_seq, selected, sw, kbd, res_APDU, res_APDU_size, oath>>

StoreCommand ==
    \E p1 \in {1, 3}, data \in StorePayloads :
        /\ config_seq < MaxSeq
        /\ otp_process_apdu(0, INS_OTP, p1, 0, data)
        /\ Env

StoreButton ==
    \E n \in Slots, ret \in OathRets :
        /\ PressInBound(n)
        /\ otp_button_pressed(n, ret, OathDefault, NullDefault, "stored")
        /\ Env

NextStore == Select \/ StoreCommand \/ StoreButton \/ Fault

SpecStore == Init /\ [][NextStore]_vars

\* The calls of calculate_oath, from every stored content of OathSlots: a
\* device is powered up with the slots it was left with
InitOath ==
    /\ slot \in [Slots -> OathSlots]
    /\ config_seq = 1
    /\ selected = FALSE
    /\ sw = "-"
    /\ kbd = <<>>
    /\ res_APDU = ResClear
    /\ res_APDU_size = 0
    /\ flash_ok = TRUE
    /\ oath = NoCall

\* an HOTP slot is followed while the low bits of its moving factor allow
OathInBound(n) ==
    file_has_data(slot[n]) /\ TestBit(tkt_flags(slot[n]), OATH_HOTP)
        => (resolve_imf(Len(slot[n]), slot[n])[CHAL_SIZE] + 1) % 4 < MaxAdvance

OathCommand ==
    \E p1 \in {1, 3}, data \in SeqPayloads :
        /\ config_seq < MaxSeq
        /\ otp_process_apdu(0, INS_OTP, p1, 0, data)
        /\ Env

\* a press together with the call of calculate_oath it makes
button_and_call(n, ret, stk) ==
    /\ otp_button_pressed(n, ret, OathDefault, NullDefault, "stored")
    /\ oath' = oath_call(n, ret, NullDefault, stk)
    /\ UNCHANGED flash_ok

OathButton ==
    \E n \in Slots, ret \in OathRets, stk \in StackBytes :
        /\ OathInBound(n)
        /\ button_and_call(n, ret, stk)

NextOath == Select \/ OathCommand \/ OathButton

SpecOath == InitOath /\ [][NextOath]_vars

\* ------------------------------------------------------------------------
\* Vocabulary of the properties
\* ------------------------------------------------------------------------
BothEmpty == slot[1] = <<>> /\ slot[2] = <<>>

\* a well-formed configure request: class 0, INS_OTP, P2 = 0, P1 = 1 or 3
ConfigureStep(p1, d) == otp_process_apdu(0, INS_OTP, p1, 0, d)

AllZero(b) == \A i \in 1..Len(b) : b[i] = 0

\* the moving factor as a reader of the stored bytes resolves it: from
\* uid[4..5] for a record without extension, else the trailing 8 bytes
MovingFactor(ef) ==
    IF Len(ef) = otp_config_size
    THEN (uid(ef)[5] * 256 + uid(ef)[6]) * 16
    ELSE be_value(SubSeq(ef, Len(ef) - 7, Len(ef)))

IsHotp(ef) == ef # <<>> /\ TestBit(tkt_flags(ef), OATH_HOTP)

\* the payloads of the catalogue by the shape the properties speak of
ReservedSet == {d \in Payloads : d[49] # 0 \/ d[50] # 0}
ReservedClear == {d \in Payloads : d[49] = 0 /\ d[50] = 0}
Zero46 == {d \in Payloads : AllZero(SubSeq(d, 1, 46))}
NonZero46 == {d \in Payloads : ~AllZero(SubSeq(d, 1, 46))}
Zero52 == {d \in Payloads : AllZero(SubSeq(d, 1, 52))}
NonZero52 == {d \in Payloads : ~AllZero(SubSeq(d, 1, 52))}

\* ------------------------------------------------------------------------
\* C1  Once the applet has been selected, in every reachable state the
\*     sequence number is 0 if and only if both slots are empty.
\*     (The code violates it: the 8-bit config_seq wraps from 255 to 0 on
\*     the 255th successful write after a selection while a slot holds data.)
\* ------------------------------------------------------------------------
C1_SeqZeroIffBothEmpty == selected => ((config_seq = 0) <=> BothEmpty)

\* ------------------------------------------------------------------------
\* C2  As claimed: a configure request aimed at a non-empty slot whose six
\*     bytes after the first 46 payload bytes differ from the stored access
\*     code is answered security-status-not-satisfied and changes nothing,
\*     whatever the rest of the payload.
\* ------------------------------------------------------------------------
C2_Original ==
    [][\A p1 \in {1, 3}, d \in Payloads :
          (/\ slot[slot_of_p1(p1)] # <<>>
           /\ Bytes(d, 46, 6) # acc_code(slot[slot_of_p1(p1)])
           /\ ConfigureStep(p1, d))
          => (/\ sw' = "SW_SECURITY_STATUS_NOT_SATISFIED"
              /\ UNCHANGED <<slot, config_seq>>)]_vars

\* C2  As amended: a configure request with both reserved bytes zero, aimed
\*     at a non-empty slot, whose six bytes after the 52-byte record differ
\*     from the stored access code is answered
\*     security-status-not-satisfied, and both slots and the sequence number
\*     are unchanged, whether the record is all zero (a delete) or not.
C2_MismatchRejected ==
    [][\A p1 \in {1, 3}, d \in ReservedClear :
          (/\ slot[slot_of_p1(p1)] # <<>>
           /\ SubSeq(d, 53, 58) # SubSeq(slot[slot_of_p1(p1)], 39, 44)
           /\ ConfigureStep(p1, d))
          => (/\ sw' = "SW_SECURITY_STATUS_NOT_SATISFIED"
              /\ UNCHANGED <<slot, config_seq>>)]_vars

\* a request was refused for its access code while slot 2 holds a record
\* protected by the non-zero code
C2_Witness ==
    /\ sw = "SW_SECURITY_STATUS_NOT_SATISFIED"
    /\ slot[2] # <<>> /\ acc_code(slot[2]) = AccB

C4_ReservedRejected ==
    [][\A p1 \in {1, 3}, d \in ReservedSet :
          ConfigureStep(p1, d)
          => (/\ sw' = "SW_WRONG_DATA"
              /\ UNCHANGED <<slot, config_seq>>)]_vars

\* a request was refused for its reserved bytes while both slots hold data
C4_Witness ==
    /\ sw = "SW_WRONG_DATA"
    /\ slot[1] # <<>> /\ slot[2] # <<>>

\* ------------------------------------------------------------------------
\* C5  As claimed: a configure request whose first 46 bytes are not all
\*     zero, aimed at an empty slot, leaves the slot holding exactly those
\*     46 bytes.
\* ------------------------------------------------------------------------
C5_Original ==
    [][\A p1 \in {1, 3}, d \in NonZero46 :
          (/\ slot[slot_of_p1(p1)] = <<>>
           /\ ConfigureStep(p1, d))
          => slot'[slot_of_p1(p1)] = SubSeq(d, 1, 46)]_vars

\* C5  As amended: a configure request whose 52-byte record is not all zero
\*     and has both reserved bytes zero, aimed at an empty slot with any
\*     access code, leaves the slot holding exactly the 52 bytes of the
\*     record, and is answered with success.
C5_WriteReadBack ==
    [][\A p1 \in {1, 3}, d \in NonZero52 \cap ReservedClear :
          (/\ slot[slot_of_p1(p1)] = <<>>
           /\ ConfigureStep(p1, d))
          => (/\ slot'[slot_of_p1(p1)] = SubSeq(d, 1, 52)
              /\ sw' = "SW_OK")]_vars

\* the first write after selecting a blank device: the record whose only
\* non-zero byte is tkt_flags is what slot 2 holds
C5_Witness ==
    /\ slot[2] = Rec_hotp6 /\ slot[1] = <<>>
    /\ config_seq = 1 /\ sw = "SW_OK"

\* ------------------------------------------------------------------------
\* C6  As claimed: a configure request whose first 46 bytes are all zero
\*     and which passes the access-code check leaves the target slot empty.
\* ------------------------------------------------------------------------
C6_Original ==
    [][\A p1 \in {1, 3}, d \in Zero46 :
          (/\ \/ slot[slot_of_p1(p1)] = <<>>
              \/ SubSeq(d, 53, 58) = SubSeq(slot[slot_of_p1(p1)], 39, 44)
           /\ ConfigureStep(p1, d))
          => slot'[slot_of_p1(p1)] = <<>>]_vars

\* C6  As amended: a configure request whose first 52 bytes (the whole
\*     record) are all zero and which passes the access-code check when the
\*     target slot is non-empty leaves the target slot empty, whatever it
\*     held (with or without counter extension), stores no all-zero record,
\*     and leaves the other slot's bytes unchanged.
C6_ZeroRecordDeletes ==
    [][\A p1 \in {1, 3}, d \in Zero52 :
          (/\ \/ slot[slot_of_p1(p1)] = <<>>
              \/ SubSeq(d, 53, 58) = SubSeq(slot[slot_of_p1(p1)], 39, 44)
           /\ ConfigureStep(p1, d))
          => (/\ slot'[slot_of_p1(p1)] = <<>>
              /\ slot'[3 - slot_of_p1(p1)] = slot[3 - slot_of_p1(p1)]
              /\ sw' = "SW_OK")]_vars

\* slot 1 has been deleted while slot 2 keeps a record with its counter
\* extension
C6_Witness ==
    /\ slot[1] = <<>> /\ Len(slot[2]) = otp_config_size + CHAL_SIZE
    /\ config_seq = 2 /\ sw = "SW_OK"

\* ------------------------------------------------------------------------
\* C7  Every successful mutating command (a configure that writes a record,
\*     or a delete of a slot that holds data) raises the sequence number by
\*     exactly 1, except that it is 0 when the command leaves both slots
\*     empty.
\*     (The code violates it: a delete that leaves the other slot occupied
\*     leaves config_seq as it was, and a write at config_seq = 255 wraps
\*     it to 0.)
\* ------------------------------------------------------------------------
C7_MutationAdvancesSeq ==
    [][\A p1 \in {1, 3}, d \in SeqPayloads :
          (/\ d[49] = 0 /\ d[50] = 0
           /\ \/ slot[slot_of_p1(p1)] = <<>>
              \/ SubSeq(d, 53, 58) = SubSeq(slot[slot_of_p1(p1)], 39, 44)
           /\ (~AllZero(SubSeq(d, 1, 52)) \/ slot[slot_of_p1(p1)] # <<>>)
           /\ ConfigureStep(p1, d))
          => config_seq' = (IF BothEmpty' THEN 0 ELSE config_seq + 1)]_vars

\* ------------------------------------------------------------------------
\* C8  A button press on an empty slot is a no-op: nothing is sent to the
\*     keyboard channel and neither slot nor the sequence number changes.
\*     (The code violates it: it never tests the slot for data and reads
\*     the flags through the NULL record pointer.)
\* ------------------------------------------------------------------------
C8_EmptyPressIsNoop ==
    [][\A n \in Slots, ret \in OathRets, v \in OathValues, nul \in NullReads, st \in StoreOutcomes :
          (slot[n] = <<>> /\ otp_button_pressed(n, ret, v, nul, st))
          => (kbd' = <<>> /\ UNCHANGED <<slot, config_seq>>)]_vars

\* ------------------------------------------------------------------------
\* C9  A button press on a slot in static-ticket mode with the short-ticket
\*     bit set and stored fixed_size f emits the first floor(f / 2) bytes of
\*     fixed_data (followed at most by the terminator), and f is still the
\*     stored fixed_size afterwards, so that each later press emits the same.
\*     (The code violates it: it halves fixed_size in the stored record.)
\* ------------------------------------------------------------------------
C9_ShortTicketHalf ==
    [][\A n \in Slots, st \in StoreOutcomes :
          (/\ slot[n] # <<>>
           /\ ~TestBit(tkt_flags(slot[n]), OATH_HOTP)
           /\ TestBit(cfg_flags(slot[n]), SHORT_TICKET)
           /\ otp_button_pressed(n, "CCID_OK", OathDefault, NullDefault, st))
          => (/\ kbd' \in {SubSeq(slot[n], 1, slot[n][45] \div 2),
                           SubSeq(slot[n], 1, slot[n][45] \div 2) \o <<40>>}
              /\ slot'[n][45] = slot[n][45])]_vars

\* ------------------------------------------------------------------------
\* C10 A successful HOTP emission for the value v returned by the
\*     truncation primitive sends exactly 8 decimal digits that read
\*     v mod 10^8 when the 8-digit bit of cfg_flags is set, and otherwise
\*     exactly 6 decimal digits that read v mod 10^6, zero-padded on the
\*     left; only a carriage return may follow them.
\* ------------------------------------------------------------------------
RECURSIVE DecimalValue(_)
DecimalValue(s) ==
    IF s = <<>> THEN 0
    ELSE DecimalValue(SubSeq(s, 1, Len(s) - 1)) * 10 + (s[Len(s)] - 48)

DigitCount(ef) == IF TestBit(cfg_flags(ef), OATH_HOTP8) THEN 8 ELSE 6

C10_HotpDigits ==
    [][\A n \in Slots, v \in OathValues :
          (IsHotp(slot[n]) /\ otp_button_pressed(n, "CCID_OK", v, NullDefault, "stored"))
          => LET k == DigitCount(slot[n])
                 digits == SubSeq(kbd', 1, k)
             IN  /\ Len(kbd') >= k
                 /\ \A i \in 1..k : digits[i] \in 48..57
                 /\ DecimalValue(digits) = be_value(v) % (10 ^ k)
                 /\ SubSeq(kbd', k + 1, Len(kbd')) \in {<<>>, <<13>>}]_vars

\* "00000042" and a carriage return were sent: an 8-digit code whose value
\* 100000042 mod 10^8 needs six padding zeros
C10_Witness ==
    /\ kbd = <<48, 48, 48, 48, 48, 48, 52, 50, 13>>
    /\ \E n \in Slots : IsHotp(slot[n]) /\ Len(slot[n]) = otp_config_size + CHAL_SIZE

\* ------------------------------------------------------------------------
\* C11 After applet selection and after every successful configure or
\*     delete command, the response is a status payload of at least 6 bytes
\*     laid out as [major][minor][0][sequence number][capability][0]; the
\*     capability byte has the touch bits of both slots set and the valid
\*     bit of a slot set if and only if that slot is non-empty then.
\*     (The code violates it: otp_status sets res_APDU_size to 0 and never
\*     raises it, so the response carries no data, and it writes the six
\*     bytes at offsets 1..6 of the buffer, not 0..5.)
\* ------------------------------------------------------------------------
C11_StatusPayload ==
    [][(\/ \E aid \in AidInputs : aid_matches(aid) /\ otp_select(aid)
        \/ \E p1 \in {1, 3}, d \in Payloads : sw' = "SW_OK" /\ ConfigureStep(p1, d))
       => LET r == Bytes(res_APDU', 0, res_APDU_size')
          IN  /\ Len(r) >= 6
              /\ r[1] = PICO_FIDO_VERSION_MAJOR
              /\ r[2] = PICO_FIDO_VERSION_MINOR
              /\ r[3] = 0
              /\ r[4] = config_seq'
              /\ TestBit(r[5], CONFIG1_TOUCH) /\ TestBit(r[5], CONFIG2_TOUCH)
              /\ TestBit(r[5], CONFIG1_VALID) <=> slot'[1] # <<>>
              /\ TestBit(r[5], CONFIG2_VALID) <=> slot'[2] # <<>>
              /\ r[6] = 0]_vars

\* ------------------------------------------------------------------------
\* C12 A command with a non-zero class byte is answered
\*     class-not-supported; a command of class 0 with an instruction other
\*     than INS_OTP is answered instruction-not-supported; an INS_OTP command
\*     of class 0 with P2 different from 0 is answered incorrect-parameters.
\*     In each case both slots and the sequence number are unchanged,
\*     whatever P1 and the payload ask for.
\* ------------------------------------------------------------------------
C12_ShapeErrorsRejected ==
    [][\A h \in OtherHeaders, d \in OtherPayloads :
          otp_process_apdu(h[1], h[2], h[3], h[4], d)
          => /\ h[1] # 0
                => sw' = "SW_CLA_NOT_SUPPORTED" /\ UNCHANGED <<slot, config_seq>>
             /\ (h[1] = 0 /\ h[2] # INS_OTP)
                => sw' = "SW_INS_NOT_SUPPORTED" /\ UNCHANGED <<slot, config_seq>>
             /\ (h[1] = 0 /\ h[2] = INS_OTP /\ h[4] # 0)
                => sw' = "SW_INCORRECT_P1P2" /\ UNCHANGED <<slot, config_seq>>]_vars

\* a command was refused for its P2 while slot 1 holds a record and the
\* sequence number has advanced
C12_Witness ==
    /\ sw = "SW_INCORRECT_P1P2"
    /\ slot[1] # <<>> /\ config_seq = 2

\* ------------------------------------------------------------------------
\* C13 A failure of the storage write is propagated: when the write of a
\*     configure command fails, the command does not return success and
\*     does not increment the sequence number; when the counter write of an
\*     HOTP press fails, the press reports the failure as its outcome (an
\*     outcome other than "-", the one every press has).
\*     (The code violates it: the value flash_write_data_to_file returns
\*     is dropped in both places.)
\* ------------------------------------------------------------------------
C13_StorageFailurePropagated ==
    [][/\ \A p1 \in {1, 3}, d \in StorePayloads :
             (/\ ~flash_ok
              /\ ~AllZero(SubSeq(d, 1, 52))
              /\ \/ slot[slot_of_p1(p1)] = <<>>
                 \/ SubSeq(d, 53, 58) = SubSeq(slot[slot_of_p1(p1)], 39, 44)
              /\ ConfigureStep(p1, d))
             => (sw' # "SW_OK" /\ config_seq' = config_seq)
       /\ \A n \in Slots :
             (/\ ~flash_ok
              /\ IsHotp(slot[n])
              /\ otp_button_pressed(n, "CCID_OK", OathDefault, NullDefault, "stored"))
             => sw' # "-"]_vars

\* ------------------------------------------------------------------------
\* C14 As claimed: in every reachable state each slot is empty or holds
\*     exactly 46 or exactly 54 bytes, and holds 54 bytes only if the HOTP
\*     bit of the stored tkt_flags is set.
\* ------------------------------------------------------------------------
C14_Original ==
    \A n \in Slots :
        /\ Len(slot[n]) \in {0, 46, 54}
        /\ Len(slot[n]) = 54 => TestBit(tkt_flags(slot[n]), OATH_HOTP)

\* C14 As amended: in every state reachable by configure commands, delete
\*     commands and button presses, each slot is empty or holds exactly 52
\*     bytes (the packed record) or exactly 60 bytes (the record and the
\*     8-byte counter extension), and it holds 60 bytes only if the HOTP bit
\*     of the stored tkt_flags is set.
C14_SlotLength ==
    \A n \in Slots :
        /\ Len(slot[n]) \in {0, 52, 60}
        /\ Len(slot[n]) = 60 => TestBit(tkt_flags(slot[n]), OATH_HOTP)

\* slot 1 holds a record with its extension while slot 2 holds a bare
\* record that is not in HOTP mode
C14_Witness ==
    /\ Len(slot[1]) = 60
    /\ Len(slot[2]) = 52 /\ ~IsHotp(slot[2])

\* ------------------------------------------------------------------------
\* C15 An INS_OTP command of class 0 with P2 = 0 whose P1 is none of 0x01,
\*     0x03 and 0x10 is answered with an error status, never with success,
\*     and changes neither slot nor the sequence number.
\*     (The code violates it: cmd_otp falls through to "return SW_OK()".)
\* ------------------------------------------------------------------------
C15_UnknownP1Rejected ==
    [][\A h \in OtherHeaders, d \in OtherPayloads :
          (/\ h[1] = 0 /\ h[2] = INS_OTP /\ h[4] = 0
           /\ h[3] \notin {1, 3, 16}
           /\ otp_process_apdu(h[1], h[2], h[3], h[4], d))
          => (sw' # "SW_OK" /\ UNCHANGED <<slot, config_seq>>)]_vars

\* ------------------------------------------------------------------------
\* C16 A button press on a slot that holds a record not in HOTP mode
\*     (static ticket, short ticket or neither) leaves every stored byte of
\*     that slot unchanged, fixed_size included; any press on a slot that
\*     holds a record leaves the other slot and the sequence number
\*     unchanged.
\*     (The code violates it: the short-ticket branch halves fixed_size in
\*     the stored record.)
\* ------------------------------------------------------------------------
C16_PressFrame ==
    [][\A n \in Slots, ret \in OathRets, v \in OathValues, st \in StoreOutcomes :
          (slot[n] # <<>> /\ otp_button_pressed(n, ret, v, NullDefault, st))
          => (/\ ~IsHotp(slot[n]) => slot'[n] = slot[n]
              /\ slot'[3 - n] = slot[3 - n]
              /\ config_seq' = config_seq)]_vars

\* ------------------------------------------------------------------------
\* C17 The moving factor passed as the 8-byte big-endian challenge of an
\*     HOTP emission is, for a stored record without extension, the value
\*     (uid[4] * 256 + uid[5]) * 16 with all higher bits zero, and otherwise
\*     exactly the 8 bytes stored after the base record, whatever their
\*     values (bytes of 0x80 and above in any position included).  The
\*     base record is taken with the size the code gives it, 52 bytes.
\*     (The code violates it: "*p++ << 24" is computed as an int and sign
\*     extended into the 64-bit value, so a fifth byte of 0x80 and above
\*     turns the four high bytes of the challenge into 0xff.)
\* ------------------------------------------------------------------------
SeedBytes(ef) ==
    LET seed == (ef[21] * 256 + ef[22]) * 16
    IN  [i \in 1..8 |-> IF i <= 4 THEN 0 ELSE (seed \div (256 ^ (8 - i))) % 256]

\* the moving factor of the stored bytes, as 8 big-endian bytes
StoredFactor(ef) == IF Len(ef) = 52 THEN SeedBytes(ef) ELSE SubSeq(ef, 53, 60)

C17_ChallengeIsStoredFactor ==
    [][\A n \in Slots, ret \in OathRets, stk \in StackBytes :
          (IsHotp(slot[n]) /\ button_and_call(n, ret, stk))
          => oath'.chal = StoredFactor(slot[n])]_vars

\* ------------------------------------------------------------------------
\* C18 The 18-byte key passed to the truncation primitive by an HOTP
\*     emission is the byte 0x01, the byte 0x00 and the 16 bytes of the
\*     stored key, so that presses made on identical stored bytes pass
\*     identical keys.
\*     (The code violates it: tmp_key[1] is never written, the second byte
\*     of the key is whatever the stack holds.)
\* ------------------------------------------------------------------------
C18_KeyIsDetermined ==
    [][\A n \in Slots, ret \in OathRets, stk \in StackBytes :
          (IsHotp(slot[n]) /\ button_and_call(n, ret, stk))
          => oath'.key = <<1, 0>> \o SubSeq(slot[n], 23, 38)]_vars

\* ------------------------------------------------------------------------
\* C19 After any sequence of presses and commands, the moving factor
\*     resolved from the stored bytes of a slot is greater than the moving
\*     factor of the most recent HOTP emission made from that slot: no
\*     operation brings it back to a value already emitted.  Stated for
\*     emissions with a moving factor below 2^31.
\*     (The code violates it: a configure command writes the bare record,
\*     which drops the stored counter and restarts from the uid seed.)
\* ------------------------------------------------------------------------
\* a < b for big-endian byte strings of the same length
BytesLess(a, b) ==
    \E i \in 1..Len(a) : a[i] < b[i] /\ \A j \in 1..(i - 1) : a[j] = b[j]

C19_NeverBackToEmitted ==
    \A n \in Slots :
        (/\ oath.n = n /\ oath.ret = "CCID_OK"
         /\ \A i \in 1..4 : oath.chal[i] = 0
         /\ oath.chal[5] < 128
         /\ IsHotp(slot[n]))
        => BytesLess(oath.chal, StoredFactor(slot[n]))

\* ------------------------------------------------------------------------
\* C20 On a press of an HOTP slot the stored moving factor advances if and
\*     only if a code was sent: when the truncation primitive fails, nothing
\*     at all is sent to the keyboard (no digit, no carriage return) and the
\*     slot is unchanged; when it succeeds, the code digits are sent,
\*     followed by one carriage return exactly when the CR bit of tkt_flags
\*     is set, and the moving factor advances.
\*     (The code violates it: the carriage return is appended outside the
\*     success branch, so a failed emission still sends it.)
\* ------------------------------------------------------------------------
C20_EmitIffAdvance ==
    [][\A n \in Slots, ret \in OathRets, v \in OathValues :
          (IsHotp(slot[n]) /\ otp_button_pressed(n, ret, v, NullDefault, "stored"))
          => IF ret = "CCID_OK"
             THEN LET k == DigitCount(slot[n])
                  IN  /\ Len(kbd') >= k
                      /\ \A i \in 1..k : kbd'[i] \in 48..57
                      /\ SubSeq(kbd', k + 1, Len(kbd')) =
                             (IF TestBit(tkt_flags(slot[n]), APPEND_CR) THEN <<13>> ELSE <<>>)
                      /\ MovingFactor(slot'[n]) = MovingFactor(slot[n]) + 1
             ELSE kbd' = <<>> /\ slot' = slot]_vars

====
